---- MODULE Spec2Model ----
(***************************************************************************)
(* Model of tools.py: the HackerNews story tools.                          *)
(*                                                                         *)
(*   get_stories(num, key)                listing request, N concurrent    *)
(*                                        item requests (grequests.map),   *)
(*                                        decoding, shaping into Post      *)
(*   get_top_stories / get_new_stories    get_stories with a fixed key     *)
(*   search_new_stories_by_title          get_new_stories(100), sort by    *)
(*                                        -fuzz.token_set_ratio, slice     *)
(*                                                                         *)
(* Text that is tokenised (titles, queries) is a sequence of one-character *)
(* strings.  An optional value (Python's None or a value) is a sequence of *)
(* length 0 or 1: <<>> is None, <<v>> is the value v.                      *)
(***************************************************************************)
EXTENDS Integers, Sequences, FiniteSets, TLC

\* ------------------------------------------------------------------ bounds
\* Longest listing the upstream answers with.
MaxList == 2
\* Largest num a caller passes (the smallest is -1).
MaxNum == 2

\* ------------------------------------------------------- program constants
\* search_new_stories_by_title always fetches this many newest stories.
SearchFetchNum == 100

COMMENTS_PREFIX == "https://news.ycombinator.com/item?id="

None == <<>>
Some(v) == <<v>>

Min(a, b) == IF a <= b THEN a ELSE b
Max(a, b) == IF a >= b THEN a ELSE b

\* ------------------------------------------------------------ Python basics
\* seq[:n], for any integer n: a negative n counts from the end.
SliceHead(s, n) ==
    IF n >= 0 THEN SubSeq(s, 1, Min(n, Len(s)))
    ELSE SubSeq(s, 1, Max(0, Len(s) + n))

\* A slice that takes one element too many.
SliceHeadInclusive(s, n) ==
    IF n >= 0 THEN SubSeq(s, 1, Min(n + 1, Len(s)))
    ELSE SubSeq(s, 1, Max(0, Len(s) + n + 1))

\* data[:num] of get_stories.
TakeIds(data, num) == SliceHead(data, num)

\* dict.get(k) with a default of "" instead of None.
GetOrEmpty(p, k) == IF k \in DOMAIN p THEN Some(p[k]) ELSE Some(<<>>)

\* dict.get(k): the value, or None when the key is absent.
Get(p, k) == IF k \in DOMAIN p THEN Some(p[k]) ELSE None

DIGITS == <<"0", "1", "2", "3", "4", "5", "6", "7", "8", "9">>

RECURSIVE IntToStr(_)
\* str(n) of a natural number, as the f-string formats it.
IntToStr(n) ==
    IF n < 10 THEN DIGITS[n + 1]
    ELSE IntToStr(n \div 10) \o DIGITS[(n % 10) + 1]

\* f"{v}" of an optional integer: None formats as "None".
Format(opt) == IF opt = None THEN "None" ELSE IntToStr(opt[1])

\* ------------------------------------------- thefuzz: fuzz.token_set_ratio
LOWER == <<"a", "b", "c", "d", "e", "f", "g", "h", "i", "j", "k", "l", "m",
           "n", "o", "p", "q", "r", "s", "t", "u", "v", "w", "x", "y", "z">>
UPPER == <<"A", "B", "C", "D", "E", "F", "G", "H", "I", "J", "K", "L", "M",
           "N", "O", "P", "Q", "R", "S", "T", "U", "V", "W", "X", "Y", "Z">>

Range(s) == {s[i] : i \in 1..Len(s)}
IndexIn(c, tbl) == CHOOSE i \in 1..Len(tbl) : tbl[i] = c

LowerLetters == Range(LOWER)
UpperLetters == Range(UPPER)
DigitChars == Range(DIGITS)
AlnumChars == LowerLetters \cup UpperLetters \cup DigitChars

\* str.lower() of one character.
ToLower(c) == IF c \in UpperLetters THEN LOWER[IndexIn(c, UPPER)] ELSE c

IsAlnum(c) == c \in AlnumChars

\* Code point order of the characters left after processing.
Ord(c) ==
    IF c \in DigitChars THEN 47 + IndexIn(c, DIGITS)
    ELSE IF c \in LowerLetters THEN 96 + IndexIn(c, LOWER)
    ELSE 32

RECURSIVE Strip(_)
\* str.strip(): leading and trailing blanks removed.
Strip(s) ==
    IF s = <<>> THEN s
    ELSE IF Head(s) = " " THEN Strip(Tail(s))
    ELSE IF s[Len(s)] = " " THEN Strip(SubSeq(s, 1, Len(s) - 1))
    ELSE s

RECURSIVE Normalise(_)
\* Non-alphanumerics to blanks, letters to lower case.
Normalise(s) ==
    IF s = <<>> THEN <<>>
    ELSE <<IF IsAlnum(Head(s)) THEN ToLower(Head(s)) ELSE " ">> \o Normalise(Tail(s))

\* utils.full_process: non-alphanumerics to blanks, lower case, strip.
FullProcess(s) == Strip(Normalise(s))

RECURSIVE SplitFrom(_, _, _, _)
SplitFrom(s, i, cur, acc) ==
    IF i > Len(s) THEN (IF cur = <<>> THEN acc ELSE acc \cup {cur})
    ELSE IF s[i] = " "
         THEN SplitFrom(s, i + 1, <<>>, IF cur = <<>> THEN acc ELSE acc \cup {cur})
         ELSE SplitFrom(s, i + 1, Append(cur, s[i]), acc)

\* set(s.split()): the set of blank-separated tokens.
TokenSet(s) == SplitFrom(s, 1, <<>>, {})

RECURSIVE LexLess(_, _)
\* a < b as Python compares strings.
LexLess(a, b) ==
    IF b = <<>> THEN FALSE
    ELSE IF a = <<>> THEN TRUE
    ELSE IF Head(a) # Head(b) THEN Ord(Head(a)) < Ord(Head(b))
    ELSE LexLess(Tail(a), Tail(b))

RECURSIVE SortedTokens(_)
\* sorted(tokens)
SortedTokens(S) ==
    IF S = {} THEN <<>>
    ELSE LET m == CHOOSE t \in S : \A u \in S \ {t} : LexLess(t, u)
         IN  <<m>> \o SortedTokens(S \ {m})

RECURSIVE JoinBlank(_)
\* " ".join(tokens)
JoinBlank(toks) ==
    IF toks = <<>> THEN <<>>
    ELSE IF Len(toks) = 1 THEN toks[1]
    ELSE toks[1] \o <<" ">> \o JoinBlank(Tail(toks))

RECURSIVE LcsRow(_, _, _, _, _)
\* One row of the longest-common-subsequence table.
LcsRow(prev, c, b, j, acc) ==
    IF j > Len(b) THEN acc
    ELSE LET v == IF c = b[j] THEN prev[j] + 1 ELSE Max(prev[j + 1], acc[j])
         IN  LcsRow(prev, c, b, j + 1, Append(acc, v))

RECURSIVE LcsRows(_, _, _, _)
LcsRows(a, b, i, prev) ==
    IF i > Len(a) THEN prev[Len(b) + 1]
    ELSE LcsRows(a, b, i + 1, LcsRow(prev, a[i], b, 1, <<0>>))

Lcs(a, b) == LcsRows(a, b, 1, [j \in 1..(Len(b) + 1) |-> 0])

\* Indel distance: insertions and deletions turning a into b.
IndelDistance(a, b) == Len(a) + Len(b) - 2 * Lcs(a, b)

\* 100 - 100 * dist / lensum, kept as the fraction <<numerator, denominator>>.
NormDistance(dist, lensum) ==
    IF lensum = 0 THEN <<100, 1>> ELSE <<100 * (lensum - dist), lensum>>

FracMax(x, y) == IF x[1] * y[2] >= y[1] * x[2] THEN x ELSE y

\* int(round(x)): Python rounds halves to the even neighbour.
RoundHalfEven(x) ==
    LET q == x[1] \div x[2]
        r == x[1] % x[2]
    IN  IF 2 * r < x[2] THEN q
        ELSE IF 2 * r > x[2] THEN q + 1
        ELSE IF q % 2 = 0 THEN q ELSE q + 1

\* rapidfuzz's token_set_ratio on two processed strings, as a fraction.
TokenSetRatio(s1, s2) ==
    LET tokens_a == TokenSet(s1)
        tokens_b == TokenSet(s2)
        intersect == tokens_a \cap tokens_b
        diff_ab == tokens_a \ tokens_b
        diff_ba == tokens_b \ tokens_a
        diff_ab_joined == JoinBlank(SortedTokens(diff_ab))
        diff_ba_joined == JoinBlank(SortedTokens(diff_ba))
        ab_len == Len(diff_ab_joined)
        ba_len == Len(diff_ba_joined)
        sect_len == Len(JoinBlank(SortedTokens(intersect)))
        sep == IF sect_len # 0 THEN 1 ELSE 0
        sect_ab_len == sect_len + sep + ab_len
        sect_ba_len == sect_len + sep + ba_len
        result == NormDistance(IndelDistance(diff_ab_joined, diff_ba_joined),
                               sect_ab_len + sect_ba_len)
        sect_ab_ratio == NormDistance(sep + ab_len, sect_len + sect_ab_len)
        sect_ba_ratio == NormDistance(sep + ba_len, sect_len + sect_ba_len)
    IN  IF tokens_a = {} \/ tokens_b = {} THEN <<0, 1>>
        ELSE IF intersect # {} /\ (diff_ab = {} \/ diff_ba = {}) THEN <<100, 1>>
        ELSE IF sect_len = 0 THEN result
        ELSE FracMax(result, FracMax(sect_ab_ratio, sect_ba_ratio))

\* A scorer that formats a None title with str() before comparing.
FuzzTokenSetRatioStr(query, title) ==
    LET t == IF title = None THEN <<"N", "o", "n", "e">> ELSE title[1]
    IN  RoundHalfEven(TokenSetRatio(FullProcess(query), FullProcess(t)))

\* fuzz.token_set_ratio(query, x["title"]): 0 when the title is None.
FuzzTokenSetRatio(query, title) ==
    IF title = None THEN 0
    ELSE RoundHalfEven(TokenSetRatio(FullProcess(query), FullProcess(title[1])))

\* -------------------------------------------------------- the upstream API
\* Texts of the model.
T_Rust2 == <<"R", "u", "s", "t", " ", "2", ".">>
T_gust == <<"g", "u", "s", "t">>
T_empty == <<>>
Q_rust == <<"r", "u", "s", "t">>
Q_go_none == <<"G", "o", " ", "n", "o", "n", "e">>

Queries == {Q_rust, Q_go_none}
Nums == (-1)..MaxNum
Ops == {"top", "new", "search"}

\* The k-th story ID the listing can hold.
IdOf(k) == 9 * k - 6
ListIds == {IdOf(k) : k \in 1..MaxList}

RECURSIVE SeqsNoRepeat(_, _)
\* The sequences of at most n distinct elements of S.
SeqsNoRepeat(S, n) ==
    IF n = 0 THEN {<<>>}
    ELSE LET shorter == SeqsNoRepeat(S, n - 1)
         IN  shorter \cup {Append(q, x) : <<q, x>> \in
                 {<<q, x>> \in shorter \X S : Len(q) = n - 1 /\ x \notin Range(q)}}

\* The ID arrays GET /{key}.json answers with.
Listings == SeqsNoRepeat(ListIds, MaxList)

\* Item payloads of GET /item/{id}.json: the fields tools.py reads, any of
\* which the upstream may leave out, under an id of the upstream's choosing.
ItemFull == [id |-> 3, title |-> T_Rust2, url |-> "https://a.example/",
             by |-> "pg", score |-> 57, time |-> 1160418111]
ItemAsk == [id |-> 12, title |-> T_gust, by |-> "dang", score |-> 3,
            time |-> 1160418222]
ItemBlank == [id |-> 12, title |-> T_empty, url |-> "https://b.example/"]
ItemUntitled == [id |-> 3, url |-> "https://c.example/", by |-> "pg",
                 score |-> 1, time |-> 1160418333]
ItemEmpty == [k \in {} |-> 0]
Payloads == {ItemFull, ItemAsk, ItemBlank, ItemUntitled, ItemEmpty}

\* The body of an error answer: a JSON object without any item field.
ErrorObject == [error |-> "Permission denied"]

NotJson == [kind |-> "invalid"]
JsonNull == [kind |-> "null"]
JsonObject(p) == [kind |-> "object", val |-> p]
JsonArray(a) == [kind |-> "array", val |-> a]

Response(st, b) == [status |-> st, body |-> b]
Is2xx(r) == r.status >= 200 /\ r.status < 300

\* What a request can end with: None is a transport failure.
ListingOutcomes ==
    {None} \cup {Some(Response(200, JsonArray(l))) : l \in Listings}
           \cup {Some(Response(200, NotJson)),
                 Some(Response(401, JsonObject(ErrorObject)))}
DetailOutcomes ==
    {None} \cup {Some(Response(200, JsonObject(p))) : p \in Payloads}
           \cup {Some(Response(200, NotJson)),
                 Some(Response(200, JsonNull)),
                 Some(Response(401, JsonObject(ErrorObject)))}

\* ------------------------------------------------------------ grequests.map
\* An AsyncRequest: done once its greenlet has finished; response stays None
\* when the request raised.
NewRequest(target) == [url |-> target, done |-> FALSE, response |-> None]

\* A map that returns as soon as one request has failed.
JoinedOrFailed(rs) ==
    \/ \A i \in 1..Len(rs) : rs[i].done
    \/ \E i \in 1..Len(rs) : rs[i].done /\ rs[i].response = None

\* gevent.joinall(jobs): every request has finished.
AllJoined(rs) == \A i \in 1..Len(rs) : rs[i].done

\* A map that hands the responses back as they completed.
GrequestsMapCompletionOrder(rs, completed) ==
    [i \in 1..Len(rs) |-> rs[completed[i]].response]

\* A map that leaves failed requests out of its result.
GrequestsMapSkipFailed(rs, completed) ==
    LET all == [i \in 1..Len(rs) |-> rs[i].response]
    IN  SelectSeq(all, LAMBDA r : r # None)

\* grequests.map(requests): one entry per request, in request order, None
\* for a request that raised.
GrequestsMap(rs, completed) == [i \in 1..Len(rs) |-> rs[i].response]

\* ------------------------------------------------------------- get_stories
Raise == [ok |-> FALSE]
Ok(v) == [ok |-> TRUE, val |-> v]

\* A decoder that turns an undecodable body into an empty object.
JsonLenient(r) ==
    IF r = None THEN Raise
    ELSE IF r[1].body.kind = "invalid" THEN Ok(JsonObject(ItemEmpty))
    ELSE Ok(r[1].body)

\* r.json(): raises on None (no attribute) and on a body that is not JSON;
\* the status of the response is not looked at.
Json(r) ==
    IF r = None THEN Raise
    ELSE IF r[1].body.kind = "invalid" THEN Raise
    ELSE Ok(r[1].body)

\* The listing key of each operation.
KeyOf(o) == IF o = "top" THEN "topstories" ELSE "newstories"

\* A search that fetches only as many stories as it returns.
FetchNumArg(o, n) == n

\* The num get_stories runs with.
FetchNum(o, n) == IF o = "search" THEN SearchFetchNum ELSE n

\* A shaper that derives comments_url from the position in the list.
ShapeAllByIndex(ps) ==
    [i \in 1..Len(ps) |->
        [title |-> Get(ps[i], "title"),
         url |-> Get(ps[i], "url"),
         comments_url |-> COMMENTS_PREFIX \o IntToStr(i),
         by |-> Get(ps[i], "by"),
         score |-> Get(ps[i], "score"),
         timestamp |-> Get(ps[i], "timestamp")]]

\* Post(...) of one decoded item.
Post(p) ==
    [title |-> Get(p, "title"),
     url |-> Get(p, "url"),
     comments_url |-> COMMENTS_PREFIX \o Format(Get(p, "id")),
     by |-> Get(p, "by"),
     score |-> Get(p, "score"),
     timestamp |-> Get(p, "timestamp")]

\* [Post(...) for p in posts]
ShapeAll(ps) == [i \in 1..Len(ps) |-> Post(ps[i])]

\* [r.json() for r in post_responses] and the shaping: raises when a
\* response is None or undecodable, or when a decoded value has no .get.
Stories(resps) ==
    LET decoded == [i \in 1..Len(resps) |-> Json(resps[i])]
    IN  IF \E i \in 1..Len(resps) : ~decoded[i].ok THEN Raise
        ELSE IF \E i \in 1..Len(resps) : decoded[i].val.kind # "object" THEN Raise
        ELSE Ok(ShapeAll([i \in 1..Len(resps) |-> decoded[i].val.val]))

\* ------------------------------------------------ search_new_stories_by_title
RECURSIVE InsertBefore(_, _, _)
\* Insertion that puts x in front of the elements whose key equals its own.
InsertBefore(sorted, x, key) ==
    IF sorted = <<>> THEN <<x>>
    ELSE IF key[Head(sorted)] >= key[x] THEN <<x>> \o sorted
    ELSE <<Head(sorted)>> \o InsertBefore(Tail(sorted), x, key)

RECURSIVE InsertAfter(_, _, _)
\* Insertion that puts x behind the elements whose key is at most its own.
InsertAfter(sorted, x, key) ==
    IF sorted = <<>> THEN <<x>>
    ELSE IF key[Head(sorted)] > key[x] THEN <<x>> \o sorted
    ELSE <<Head(sorted)>> \o InsertAfter(Tail(sorted), x, key)

RECURSIVE SortUnstable(_, _)
\* An ascending sort of the indices 1..n by key that reverses ties.
SortUnstable(n, key) ==
    IF n = 0 THEN <<>> ELSE InsertBefore(SortUnstable(n - 1, key), n, key)

RECURSIVE SortIndices(_, _)
\* list.sort(key=...): the indices 1..n in ascending key order, ties in
\* their original order.
SortIndices(n, key) ==
    IF n = 0 THEN <<>> ELSE InsertAfter(SortIndices(n - 1, key), n, key)

RECURSIVE SortKeys(_, _)
\* lambda x: -fuzz.token_set_ratio(query, x["title"]), for every post.
SortKeys(q, ps) ==
    IF ps = <<>> THEN <<>>
    ELSE <<0 - FuzzTokenSetRatio(q, Head(ps).title)>> \o SortKeys(q, Tail(ps))

\* ----------------------------------------------------------------- state
VARIABLES
    pc,        \* "idle", "listing", "fetching", "ranking", "returned", "raised"
    op,        \* the operation called
    num,       \* its num argument
    query,     \* its query argument (search only)
    listReq,   \* the listing request
    data,      \* the decoded listing
    reqs,      \* the item requests, in the order they were built
    completed, \* the indices of reqs in the order the requests finished
    fetched,   \* search: what get_new_stories returned
    keys,      \* search: the sort keys
    posts,     \* search: the list after posts.sort
    result     \* the value returned to the caller

vars == <<pc, op, num, query, listReq, data, reqs, completed, fetched, keys,
          posts, result>>

Init ==
    /\ pc = "idle"
    /\ op = "top"
    /\ num = 0
    /\ query = <<>>
    /\ listReq = NewRequest("")
    /\ data = <<>>
    /\ reqs = <<>>
    /\ completed = <<>>
    /\ fetched = <<>>
    /\ keys = <<>>
    /\ posts = <<>>
    /\ result = <<>>

\* A caller invokes get_top_stories(n), get_new_stories(n) or
\* search_new_stories_by_title(q, n); the listing request is sent.
Call(o, n, q) ==
    /\ pc = "idle"
    /\ op' = o
    /\ num' = n
    /\ query' = q
    /\ listReq' = NewRequest(KeyOf(o))
    /\ pc' = "listing"
    /\ UNCHANGED <<data, reqs, completed, fetched, keys, posts, result>>

\* The listing request ends with r; grequests.map returns, the listing is
\* decoded and sliced and the item requests are sent.
ListingResolve(r) ==
    /\ pc = "listing"
    /\ LET finished == [listReq EXCEPT !.done = TRUE, !.response = r]
           response == GrequestsMap(<<finished>>, <<1>>)
           decoded == IF response = <<>> THEN Raise ELSE Json(response[1])
       IN  /\ listReq' = finished
           /\ IF decoded.ok /\ decoded.val.kind = "array"
              THEN /\ data' = decoded.val.val
                   /\ reqs' = LET ids == TakeIds(decoded.val.val, FetchNum(op, num))
                              IN  [i \in 1..Len(ids) |-> NewRequest(ids[i])]
                   /\ pc' = "fetching"
              ELSE /\ pc' = "raised"
                   /\ UNCHANGED <<data, reqs>>
    /\ UNCHANGED <<op, num, query, completed, fetched, keys, posts, result>>

\* The i-th item request ends with r, while its siblings are still running.
DetailResolve(i, r) ==
    /\ pc = "fetching"
    /\ i \in 1..Len(reqs)
    /\ ~reqs[i].done
    /\ reqs' = [reqs EXCEPT ![i].done = TRUE, ![i].response = r]
    /\ completed' = Append(completed, i)
    /\ UNCHANGED <<pc, op, num, query, listReq, data, fetched, keys, posts, result>>

\* grequests.map returns the item responses; they are decoded and shaped.
\* get_top_stories and get_new_stories return here, the search goes on.
Gather ==
    /\ pc = "fetching"
    /\ AllJoined(reqs)
    /\ LET stories == Stories(GrequestsMap(reqs, completed))
       IN  IF ~stories.ok
           THEN pc' = "raised" /\ UNCHANGED <<fetched, result>>
           ELSE IF op = "search"
           THEN pc' = "ranking" /\ fetched' = stories.val /\ UNCHANGED result
           ELSE pc' = "returned" /\ result' = stories.val /\ UNCHANGED fetched
    /\ UNCHANGED <<op, num, query, listReq, data, reqs, completed, keys, posts>>

\* posts.sort(key=...) and return posts[:num].
Rank ==
    /\ pc = "ranking"
    /\ keys' = SortKeys(query, fetched)
    /\ posts' = LET perm == SortIndices(Len(fetched), keys')
                IN  [i \in 1..Len(fetched) |-> fetched[perm[i]]]
    /\ result' = SliceHead(posts', num)
    /\ pc' = "returned"
    /\ UNCHANGED <<op, num, query, listReq, data, reqs, completed, fetched>>

Next ==
    \/ \E o \in Ops, n \in Nums, q \in Queries :
          Call(o, n, IF o = "search" THEN q ELSE <<>>)
    \/ \E r \in ListingOutcomes : ListingResolve(r)
    \/ \E i \in 1..MaxList, r \in DetailOutcomes : DetailResolve(i, r)
    \/ Gather
    \/ Rank

Spec == Init /\ [][Next]_vars

\* ------------------------------------------------------------ the claims
\* The payload the i-th item request was answered with.
PayloadAt(i) == reqs[i].response[1].body.val

\* The upstream value of field k of payload p, None when p lacks it.
Upstream(p, k) == IF k \in DOMAIN p THEN <<p[k]>> ELSE <<>>

\* rec carries the title, url, by and score of payload p.
ShapedFrom(rec, p) ==
    /\ rec.title = Upstream(p, "title")
    /\ rec.url = Upstream(p, "url")
    /\ rec.by = Upstream(p, "by")
    /\ rec.score = Upstream(p, "score")

\* get_stories has returned a list: to the caller, or to the search.
GetStoriesReturned ==
    \/ op # "search" /\ pc = "returned"
    \/ op = "search" /\ pc \in {"ranking", "returned"}

\* The list get_stories returned.
GetStoriesValue == IF op = "search" THEN fetched ELSE result

\* Some request of the call ended in a transport failure.
TransportFailed ==
    \/ listReq.done /\ listReq.response = None
    \/ \E i \in 1..Len(reqs) : reqs[i].done /\ reqs[i].response = None

\* No list has been handed to anyone.
NothingReturned ==
    pc \notin {"ranking", "returned"} /\ result = <<>> /\ fetched = <<>>

\* C1: the i-th record get_stories returns is shaped from the payload
\* answered to the request for the i-th listed ID, whatever the order in
\* which the requests completed.
C1_OrderPreserved ==
    GetStoriesReturned =>
        /\ Len(GetStoriesValue) = Len(reqs)
        /\ \A i \in 1..Len(reqs) :
              /\ reqs[i].url = data[i]
              /\ ShapedFrom(GetStoriesValue[i], PayloadAt(i))

\* C1 witness: two requests completed in reverse order with different
\* payloads, and the call returned.
C1_Witness ==
    /\ op = "top" /\ pc = "returned"
    /\ completed = <<2, 1>>
    /\ PayloadAt(1) = ItemAsk /\ PayloadAt(2) = ItemFull
    /\ result[1].title = <<T_gust>>

\* C2: once the listing request or any item request has failed in
\* transport, the call never returns a list, partial or not.
C2_AllOrNothing ==
    TransportFailed =>
        /\ NothingReturned
        /\ pc \in {"fetching", "raised"}
        /\ (listReq.response = None => pc = "raised")

\* C2 witness: one of two item requests failed, the other was answered
\* with an item, and the call raised.
C2_Witness ==
    /\ pc = "raised" /\ Len(reqs) = 2
    /\ reqs[1].response = None
    /\ reqs[2].response = Some(Response(200, JsonObject(ItemFull)))

\* C3: for num >= 0, get_top_stories and get_new_stories send one item
\* request per ID of the first min(num, L) listed IDs, and none for the
\* others, and return min(num, L) records.
C3_Length ==
    (op \in {"top", "new"} /\ num >= 0 /\ pc \in {"fetching", "returned"}) =>
        /\ Len(reqs) = Min(num, Len(data))
        /\ \A i \in 1..Len(reqs) : reqs[i].url = data[i]
        /\ (pc = "returned" => Len(result) = Min(num, Len(data)))

\* C3 witness: a listing of two IDs, num = 1, one record returned.
C3_Witness ==
    /\ op = "new" /\ pc = "returned" /\ num = 1
    /\ Len(data) = 2 /\ Len(result) = 1 /\ Len(reqs) = 1

\* C4: the timestamp of every returned record is the payload's time field,
\* whenever the payload carries one.
C4_TimestampIsTime ==
    GetStoriesReturned =>
        \A i \in 1..Len(reqs) :
            "time" \in DOMAIN PayloadAt(i) =>
                GetStoriesValue[i].timestamp = <<PayloadAt(i).time>>

\* rec.comments_url is the comments thread of the id payload p declares.
UrlMatches(rec, p) ==
    "id" \in DOMAIN p =>
        /\ p.id = 3 => rec.comments_url = "https://news.ycombinator.com/item?id=3"
        /\ p.id = 12 => rec.comments_url = "https://news.ycombinator.com/item?id=12"

\* C5: the comments_url of every record is the fixed prefix followed by
\* the id the producing payload declares, whatever ID it was requested
\* under and whatever other fields it lacks.
C5_CommentsUrl ==
    /\ GetStoriesReturned =>
          \A i \in 1..Len(reqs) : UrlMatches(GetStoriesValue[i], PayloadAt(i))
    /\ (op = "search" /\ pc = "returned") =>
          \A j \in 1..Len(result) : \E i \in 1..Len(fetched) : result[j] = fetched[i]

\* C5 witness: the request for ID 3, first in the list, was answered with
\* a payload that declares id 12 and lacks by, score and time.
C5_Witness ==
    /\ op = "top" /\ pc = "returned" /\ Len(reqs) >= 1
    /\ reqs[1].url = 3
    /\ PayloadAt(1) = ItemBlank
    /\ result[1].comments_url = "https://news.ycombinator.com/item?id=12"

Perms(n) == {f \in [1..n -> 1..n] : \A i, j \in 1..n : f[i] = f[j] => i = j}

\* C7: what the search returns is a prefix of the candidates rearranged in
\* non-increasing score order, equal scores in their original order.
C7_StableDescending ==
    (op = "search" /\ pc = "returned") =>
        /\ \E f \in Perms(Len(fetched)) :
              /\ Len(posts) = Len(fetched)
              /\ \A i \in 1..Len(fetched) : posts[i] = fetched[f[i]]
              /\ \A i, j \in 1..Len(fetched) :
                    i < j => /\ (0 - keys[f[i]]) >= (0 - keys[f[j]])
                             /\ keys[f[i]] = keys[f[j]] => f[i] < f[j]
        /\ \E k \in 0..Len(posts) : result = SubSeq(posts, 1, k)

\* C7 witness: two different candidates with the same score, both
\* returned, in their original order.
C7_Witness ==
    /\ op = "search" /\ pc = "returned"
    /\ Len(fetched) = 2 /\ Len(result) = 2
    /\ keys[1] = keys[2]
    /\ fetched[1] # fetched[2]
    /\ result = fetched

\* C8: a field the payload lacks is None in the record and fails nothing:
\* a call whose requests were all answered with JSON objects does not
\* raise, and the search scores a None title 0, as it scores an empty one.
C8_MissingFields ==
    /\ GetStoriesReturned =>
          \A i \in 1..Len(reqs) :
              /\ \A k \in {"title", "url", "by", "score"} :
                    k \notin DOMAIN PayloadAt(i) => GetStoriesValue[i][k] = <<>>
              /\ "time" \notin DOMAIN PayloadAt(i) =>
                    GetStoriesValue[i].timestamp = <<>>
    /\ pc = "raised" =>
          \/ listReq.response = None
          \/ listReq.response[1].body.kind # "array"
          \/ \E i \in 1..Len(reqs) :
                \/ reqs[i].response = None
                \/ reqs[i].response[1].body.kind # "object"
    /\ (op = "search" /\ pc = "returned") =>
          \A i \in 1..Len(fetched) :
              (fetched[i].title = <<>> \/ fetched[i].title = <<T_empty>>) =>
                  keys[i] = 0

\* C8 witness: the search returned with a candidate without a title and a
\* candidate with an empty one, under a query that shares a word with
\* "None".
C8_Witness ==
    /\ op = "search" /\ pc = "returned" /\ query = Q_go_none
    /\ Len(fetched) = 2
    /\ PayloadAt(1) = ItemEmpty /\ fetched[1].title = <<>>
    /\ PayloadAt(2) = ItemBlank /\ fetched[2].title = <<T_empty>>

\* C9: when the call returns or raises, every request it sent has
\* finished; no item request exists before the listing was answered, and
\* ranking starts only when every item request has finished.
C9_NothingInFlight ==
    /\ pc \in {"returned", "raised"} =>
          /\ listReq.done
          /\ \A i \in 1..Len(reqs) : reqs[i].done
          /\ Len(completed) = Len(reqs)
    /\ reqs # <<>> => listReq.done /\ listReq.response # None
    /\ pc = "ranking" => \A i \in 1..Len(reqs) : reqs[i].done

\* C9 witness: the first request to finish failed, its sibling finished
\* after it with an answer, and then the call raised.
C9_Witness ==
    /\ pc = "raised" /\ Len(reqs) = 2
    /\ completed = <<2, 1>>
    /\ reqs[2].response = None
    /\ reqs[1].response = Some(Response(200, JsonObject(ItemAsk)))

\* Some item request was answered with a non-2xx status or a body that is
\* not JSON.
BadAnswer ==
    \E i \in 1..Len(reqs) :
        /\ reqs[i].done /\ reqs[i].response # None
        /\ \/ ~Is2xx(reqs[i].response[1])
           \/ reqs[i].response[1].body.kind = "invalid"

\* C10 as stated: an item request answered with a non-2xx response or a
\* malformed payload fails the call, and no record is produced.
C10_Original == BadAnswer => NothingReturned

\* C10 amended: an item request answered with a body that is not a JSON
\* object fails the call and no record is produced; the status is not
\* looked at, a non-2xx answer with a JSON object body yields a record.
C10_Amended ==
    /\ (\E i \in 1..Len(reqs) :
            /\ reqs[i].done /\ reqs[i].response # None
            /\ reqs[i].response[1].body.kind # "object")
          => NothingReturned /\ pc \in {"fetching", "raised"}
    /\ GetStoriesReturned =>
          /\ Len(GetStoriesValue) = Len(reqs)
          /\ \A i \in 1..Len(reqs) :
                ~Is2xx(reqs[i].response[1]) =>
                    ShapedFrom(GetStoriesValue[i], PayloadAt(i))

\* C10 witness: one of two item requests was answered with a body that is
\* not JSON, the other with an item, and the call raised.
C10_Witness ==
    /\ pc = "raised" /\ Len(reqs) = 2
    /\ reqs[1].response = Some(Response(200, JsonObject(ItemFull)))
    /\ reqs[2].response = Some(Response(200, NotJson))

====
